---- MODULE Spec2Model ----
(***************************************************************************)
(* Model of the two Streamlit front ends of yasarih/studentDashboard:      *)
(*   src/data.py  - teacher dashboard                                      *)
(*   src/main.py  - student login portal                                   *)
(* Strings are sequences of one-character strings, so that trimming,       *)
(* lower-casing, zero-filling, concatenation and containment are computed  *)
(* character by character as pandas / Python compute them.                 *)
(***************************************************************************)
EXTENDS Integers, Sequences, FiniteSets, TLC

VARIABLES
    \* ---- header normalisation harness (fetch_data, header lines) ----
    rawHeader,      \* data[0]: the raw header row of the worksheet
    columns,        \* df.columns after normalisation
    hpc,            \* "idle" | "raw" | "done"
    \* ---- join / aggregation harness (merge_teacher_student, groupby) ----
    main_df,        \* the rows matched at login (argument main_df)
    student_df,     \* the "Student Data" relation (argument student_df)
    merged,         \* result of merge_teacher_student
    grouped,        \* result of the Consolidated Class Hours aggregation
    jpc,            \* "idle" | "in" | "merged" | "done" | "crashed"
    \* ---- the two front ends (main() of data.py and of main.py) ----
    app,            \* "teacher" (data.py) | "student" (main.py) | "idle"
    memo,           \* st.cache_data of fetch_data: worksheet -> <<>> or <<frame>>
    sourceReads,    \* worksheet -> reads of the sheet since the last cache clear
    fetchCalls,     \* worksheet -> fetch_data calls since the last cache clear
    session,        \* st.session_state: field -> <<>> (absent) or <<value>>
    widgets,        \* the student form's text inputs at the last Login click
    outcome,        \* the last run: "view", "refresh", or how its login attempt ended
    shown           \* what the last script run rendered

hdrVars  == <<rawHeader, columns, hpc>>
joinVars == <<main_df, student_df, merged, grouped, jpc>>
appVars  == <<app, memo, sourceReads, fetchCalls, session, widgets, outcome, shown>>
vars     == <<rawHeader, columns, hpc, main_df, student_df, merged, grouped, jpc,
              app, memo, sourceReads, fetchCalls, session, widgets, outcome, shown>>

(***************************************************************************)
(* Strings                                                                 *)
(***************************************************************************)
\* The characters of the model, in code-point order.
CharOrder == <<" ", "0", "1", "2", "3", "4", "5", "6", "7", "8", "9",
               "A", "B", "C", "D", "E", "F", "G", "H", "I", "J", "K", "L", "M",
               "N", "O", "P", "Q", "R", "S", "T", "U", "V", "W", "X", "Y", "Z",
               "a", "b", "c", "d", "e", "f", "g", "h", "i", "j", "k", "l", "m",
               "n", "o", "p", "q", "r", "s", "t", "u", "v", "w", "x", "y", "z">>

CharSet == {CharOrder[k] : k \in 1..Len(CharOrder)}

RankOf == [c \in CharSet |-> CHOOSE k \in 1..Len(CharOrder) : CharOrder[k] = c]

CharRank(c) == RankOf[c]

IsUpper(c) == CharRank(c) \in 12..37
IsLower(c) == CharRank(c) \in 38..63
IsLetter(c) == IsUpper(c) \/ IsLower(c)

LowerChar(c) == IF IsUpper(c) THEN CharOrder[CharRank(c) + 26] ELSE c
UpperChar(c) == IF IsLower(c) THEN CharOrder[CharRank(c) - 26] ELSE c

StrLower(s) == [i \in 1..Len(s) |-> LowerChar(s[i])]

RECURSIVE LStrip(_)
LStrip(s) == IF s # <<>> /\ Head(s) = " " THEN LStrip(Tail(s)) ELSE s

RECURSIVE RStrip(_)
RStrip(s) == IF s # <<>> /\ s[Len(s)] = " " THEN RStrip(SubSeq(s, 1, Len(s) - 1)) ELSE s

StrStrip(s) == RStrip(LStrip(s))

Digit(d) == CASE d = 0 -> "0" [] d = 1 -> "1" [] d = 2 -> "2" [] d = 3 -> "3"
              [] d = 4 -> "4" [] d = 5 -> "5" [] d = 6 -> "6" [] d = 7 -> "7"
              [] d = 8 -> "8" [] d = 9 -> "9"

RECURSIVE NatToStr(_)
NatToStr(n) == IF n < 10 THEN <<Digit(n)>> ELSE NatToStr(n \div 10) \o <<Digit(n % 10)>>

(***************************************************************************)
(* fetch_data: header normalisation (data.py 35-39, main.py 45-51)         *)
(***************************************************************************)
Unnamed == <<"U", "n", "n", "a", "m", "e", "d">>

\* headers.groupby(headers).cumcount(): 0-based running count of equal names
CumCount(hs, i) == Cardinality({j \in 1..(i - 1) : hs[j] = hs[i]})

\* .astype(str).replace('0', ''): a whole-value replacement, "10" stays "10"
CountSuffix(n) == IF NatToStr(n) = <<"0">> THEN <<>> ELSE NatToStr(n)

NormaliseHeaders(row) ==
    LET stripped == [i \in 1..Len(row) |-> StrStrip(row[i])]
        named    == [i \in 1..Len(row) |->
                        IF stripped[i] # <<>> THEN stripped[i] ELSE Unnamed]
        suffixed == [i \in 1..Len(row) |->
                        named[i] \o CountSuffix(CumCount(named, i))]
    IN  [i \in 1..Len(row) |-> StrStrip(suffixed[i])]

(***************************************************************************)
(* Relations.  A DataFrame is [schema, rows]: schema "none" is the         *)
(* column-less pd.DataFrame() that fetch_data returns on failure, "other"  *)
(* a sheet whose header lacks the columns the code reads, and any other    *)
(* tag a sheet with those columns.  DataFrame.empty is "no rows or no      *)
(* columns".                                                               *)
(***************************************************************************)
EmptyFrame == [schema |-> "none", rows |-> <<>>]

IsEmpty(df) == df.schema = "none" \/ df.rows = <<>>

\* the null cell pandas writes into unmatched projected columns
NaN == <<"NaN">>

\* Lexicographic order on strings, as Python compares str values.
StrLess(s, t) ==
    \E k \in 1..(Len(s) + 1) :
        /\ k <= Len(t)
        /\ \A i \in 1..(k - 1) : s[i] = t[i]
        /\ (k = Len(s) + 1 \/ CharRank(s[k]) < CharRank(t[k]))

\* Lexicographic order on tuples of strings of equal length.
TupleLess(a, b) ==
    \E k \in 1..Len(a) :
        /\ \A i \in 1..(k - 1) : a[i] = b[i]
        /\ StrLess(a[k], b[k])

(***************************************************************************)
(* merge_teacher_student (data.py 52-64)                                   *)
(***************************************************************************)
\* student_df[['Student ID', 'EM', 'Phone Number']] raises KeyError unless the
\* (renamed) lookup carries the three columns.
HasLookupColumns(df) == df.schema = "student"

\* main_df.merge(..., on='Student ID', how='left'): every base row is paired
\* with EVERY lookup row of equal key, in lookup order; a base row without a
\* partner is kept once with NaN in the projected columns.
WithContact(row, em, phone) ==
    [tid |-> row.tid, pw |-> row.pw, mm |-> row.mm, tname |-> row.tname,
     date |-> row.date, sid |-> row.sid, student |-> row.student,
     cls |-> row.cls, syl |-> row.syl, typ |-> row.typ, hr |-> row.hr,
     em |-> em, phone |-> phone]

RECURSIVE PartnersOf(_, _)
PartnersOf(row, lookup) ==
    IF lookup = <<>> THEN <<>>
    ELSE (IF Head(lookup).sid = row.sid
             THEN <<WithContact(row, Head(lookup).em, Head(lookup).phone)>>
             ELSE <<>>)
         \o PartnersOf(row, Tail(lookup))

LeftMergeRow(row, lookup) ==
    IF PartnersOf(row, lookup) = <<>> THEN <<WithContact(row, NaN, NaN)>>
    ELSE PartnersOf(row, lookup)

RECURSIVE LeftMerge(_, _)
LeftMerge(base, lookup) ==
    IF base = <<>> THEN <<>>
    ELSE LeftMergeRow(Head(base), lookup) \o LeftMerge(Tail(base), lookup)

merge_teacher_student(mdf, sdf) ==
    IF IsEmpty(mdf) \/ IsEmpty(sdf) THEN EmptyFrame
    ELSE IF ~HasLookupColumns(sdf) \/ mdf.schema # "class"
         THEN mdf                                  \* except: return main_df
    ELSE [schema |-> "merged", rows |-> LeftMerge(mdf.rows, sdf.rows)]

(***************************************************************************)
(* Daily Class Log tab (data.py 198-209)                                   *)
(***************************************************************************)
\* summary.sort_values(by=["Date", "Student ID"]): a stable sort
SortRank(rows, i) ==
    Cardinality({j \in 1..Len(rows) :
        \/ TupleLess(<<rows[j].date, rows[j].sid>>, <<rows[i].date, rows[i].sid>>)
        \/ (rows[j].date = rows[i].date /\ rows[j].sid = rows[i].sid /\ j < i)}) + 1

SortByDateStudent(rows) ==
    [k \in 1..Len(rows) |-> rows[CHOOSE i \in 1..Len(rows) : SortRank(rows, i) = k]]

RECURSIVE SumHr(_)
SumHr(rows) == IF rows = <<>> THEN 0 ELSE Head(rows).hr + SumHr(Tail(rows))

GroupKey(r) == <<r.cls, r.syl, r.typ>>

KeysOf(rows) == {GroupKey(rows[i]) : i \in 1..Len(rows)}

RowsOfKey(rows, k) == SelectSeq(rows, LAMBDA r : GroupKey(r) = k)

\* groupby([...]).agg({"Hr": "sum"}).reset_index(): one row per key, keys sorted
GroupSum(rows) ==
    LET keys == KeysOf(rows)
        KeyRank(k) == Cardinality({q \in keys : TupleLess(q, k)}) + 1
    IN  [n \in 1..Cardinality(keys) |->
            LET k == CHOOSE q \in keys : KeyRank(q) = n
            IN  [cls |-> k[1], syl |-> k[2], typ |-> k[3],
                 hr |-> SumHr(RowsOfKey(rows, k))]]

\* merged_data[["Date", ..., "Type of class"]] raises KeyError on the
\* column-less frame
ClassLogCrashes(mdata) == mdata.schema = "none"

\* otherwise the summary is sorted, and grouped for the consolidated hours
ClassLogSummary(mdata) == SortByDateStudent(mdata.rows)

ClassLogGrouped(mdata) == GroupSum(ClassLogSummary(mdata))

(***************************************************************************)
(* More string functions used by the login blocks                          *)
(***************************************************************************)
\* str.title(): a letter after a non-letter is upper-cased, any other lowered
StrTitle(s) ==
    [i \in 1..Len(s) |->
        IF i = 1 \/ ~IsLetter(s[i - 1]) THEN UpperChar(s[i]) ELSE LowerChar(s[i])]

\* str.zfill(2): left-pad with "0" up to two characters
ZFill2(s) == IF Len(s) >= 2 THEN s
             ELSE IF Len(s) = 1 THEN <<"0">> \o s ELSE <<"0", "0">>

\* f"{month:02}"
MonthStr(m) == IF m < 10 THEN <<"0">> \o NatToStr(m) ELSE NatToStr(m)

\* Python's `sub in s`
Contains(sub, s) ==
    \E k \in 0..(Len(s) - Len(sub)) : SubSeq(s, k + 1, k + Len(sub)) = sub

(***************************************************************************)
(* Session state: every field is <<>> (key absent) or <<value>>            *)
(***************************************************************************)
SessionFields == {"teacher_name", "teacher_id", "filtered_data", "merged_data",
                  "profile_data", "supalearn_id", "demofit",
                  "student_id", "student_profile"}

EmptySession == [f \in SessionFields |-> <<>>]

Has(sess, f) == sess[f] # <<>>

\* Python None
None == <<"None">>

(***************************************************************************)
(* Teacher login and profile look-ups (data.py 76-93, 125-161)             *)
(***************************************************************************)
\* data.py 136-138: the normalised copy of the class relation
NormTeacherRow(r) ==
    [r EXCEPT !.tid = StrLower(StrStrip(r.tid)),
              !.pw  = StrStrip(r.pw),
              !.mm  = ZFill2(r.mm)]

\* variant: stops at the first matching row
TeacherFilter_FirstOnly(rows, teacher_id, teacher_pass, month_str) ==
    LET all == SelectSeq([i \in 1..Len(rows) |-> NormTeacherRow(rows[i])],
                         LAMBDA r : r.tid = teacher_id /\ r.pw = teacher_pass
                                       /\ r.mm = month_str)
    IN  IF all = <<>> THEN <<>> ELSE <<all[1]>>

\* data.py 140-144: the boolean mask, applied to the whole relation
TeacherFilter(rows, teacher_id, teacher_pass, month_str) ==
    SelectSeq([i \in 1..Len(rows) |-> NormTeacherRow(rows[i])],
              LAMBDA r : r.tid = teacher_id /\ r.pw = teacher_pass /\ r.mm = month_str)

\* data.py 76-79
get_teacher_profile(teacher_id, profile_df) ==
    [schema |-> profile_df.schema,
     rows   |-> SelectSeq(
                  [i \in 1..Len(profile_df.rows) |->
                      [profile_df.rows[i] EXCEPT
                          !.tid = StrLower(StrStrip(profile_df.rows[i].tid))]],
                  LAMBDA r : r.tid = teacher_id)]

\* data.py 80-93
get_supaleran_demofit(teacher_id, supa_df) ==
    LET row == SelectSeq(supa_df.rows,
                         LAMBDA r : StrLower(StrStrip(r.tid)) = StrLower(StrStrip(teacher_id)))
    IN  IF row # <<>> THEN <<row[1].supalearn, row[1].demofit>> ELSE <<None, None>>

\* profile_df['Teacher id'] raises KeyError unless the frame has the column
HasTeacherIdColumn(df) == df.schema \in {"profile", "supa"}

\* data.py 125-161: the Login button's block.  frames: worksheet -> frame.
\* The assignments to st.session_state happen one by one, so an exception
\* raised by a look-up leaves the earlier ones in place.
TeacherLogin(frames, sess, rawId, teacher_pass, month) ==
    LET teacher_id == StrLower(StrStrip(rawId))
        class_df   == frames["class"]
    IN  IF IsEmpty(class_df) THEN [outcome |-> "SourceUnavailable", session |-> sess]
        ELSE IF class_df.schema # "class" THEN [outcome |-> "Crash", session |-> sess]
        ELSE
        LET filtered == [schema |-> "class",
                         rows |-> TeacherFilter(class_df.rows, teacher_id,
                                                teacher_pass, MonthStr(month))]
            s1 == [sess EXCEPT
                     !["teacher_name"]  = <<StrTitle(filtered.rows[1].tname)>>,
                     !["teacher_id"]    = <<teacher_id>>,
                     !["filtered_data"] = <<filtered>>,
                     !["merged_data"]   = <<merge_teacher_student(filtered, frames["student"])>>]
            s2 == [s1 EXCEPT
                     !["profile_data"]  = <<get_teacher_profile(teacher_id, frames["profile"])>>]
            sd == get_supaleran_demofit(teacher_id, frames["supa"])
            s3 == [s2 EXCEPT !["supalearn_id"] = <<sd[1]>>, !["demofit"] = <<sd[2]>>]
        IN  IF filtered.rows = <<>>
                THEN [outcome |-> "InvalidCredentials", session |-> sess]
            ELSE IF ~HasTeacherIdColumn(frames["profile"])
                THEN [outcome |-> "Crash", session |-> s1]
            ELSE IF ~HasTeacherIdColumn(frames["supa"])
                THEN [outcome |-> "Crash", session |-> s2]
            ELSE [outcome |-> "Success", session |-> s3]

\* data.py 164-214: the dashboard, rendered when "teacher_name" is in the
\* session; reading a missing session attribute or a missing column raises.
TeacherDashboard(sess) ==
    IF ~Has(sess, "teacher_name") THEN [kind |-> "form", log |-> <<>>]
    ELSE IF \/ ~Has(sess, "supalearn_id") \/ ~Has(sess, "demofit")
            \/ ~Has(sess, "profile_data") \/ ~Has(sess, "merged_data")
        THEN [kind |-> "exception", log |-> <<>>]
    ELSE IF ClassLogCrashes(sess["merged_data"][1])
        THEN [kind |-> "exception", log |-> <<>>]
    ELSE [kind |-> "dashboard", log |-> ClassLogGrouped(sess["merged_data"][1])]

(***************************************************************************)
(* Student login and class log (main.py 87-166)                            *)
(***************************************************************************)
MinNameLen == 4

\* main.py 96-97
NormStudentRow(r) ==
    [r EXCEPT !.sid = StrStrip(StrLower(r.sid)), !.student = StrStrip(StrLower(r.student))]

\* variant: the ID lookup runs before the length check
StudentLogin_LookupFirst(class_df, sess, rawId, rawName) ==
    IF IsEmpty(class_df) THEN [outcome |-> "SourceUnavailable", session |-> sess]
    ELSE IF class_df.schema # "class" THEN [outcome |-> "Crash", session |-> sess]
    ELSE
    LET df    == [i \in 1..Len(class_df.rows) |-> NormStudentRow(class_df.rows[i])]
        sid   == StrStrip(StrLower(rawId))
        sname == StrStrip(StrLower(rawName))
        match == SelectSeq(df, LAMBDA r : r.sid = sid)
    IN  IF match = <<>>
            THEN [outcome |-> "NotFound", session |-> sess]
        ELSE IF Len(sname) < MinNameLen
            THEN [outcome |-> "ValidationFailure", session |-> sess]
        ELSE IF ~Contains(sname, match[1].student)
            THEN [outcome |-> "Mismatch", session |-> sess]
        ELSE [outcome |-> "Success",
              session |-> [sess EXCEPT !["student_id"] = <<sid>>,
                                       !["student_profile"] = <<match[1]>>]]

\* variant: student_id is stored as soon as the ID is found
StudentLogin_StoreIdEarly(class_df, sess, rawId, rawName) ==
    IF IsEmpty(class_df) THEN [outcome |-> "SourceUnavailable", session |-> sess]
    ELSE IF class_df.schema # "class" THEN [outcome |-> "Crash", session |-> sess]
    ELSE
    LET df    == [i \in 1..Len(class_df.rows) |-> NormStudentRow(class_df.rows[i])]
        sid   == StrStrip(StrLower(rawId))
        sname == StrStrip(StrLower(rawName))
        match == SelectSeq(df, LAMBDA r : r.sid = sid)
        found == [sess EXCEPT !["student_id"] = <<sid>>]
    IN  IF Len(sname) < MinNameLen
            THEN [outcome |-> "ValidationFailure", session |-> sess]
        ELSE IF match = <<>>
            THEN [outcome |-> "NotFound", session |-> sess]
        ELSE IF ~Contains(sname, match[1].student)
            THEN [outcome |-> "Mismatch", session |-> found]
        ELSE [outcome |-> "Success",
              session |-> [found EXCEPT !["student_profile"] = <<match[1]>>]]

\* main.py 87-123: the Login button's block
StudentLogin(class_df, sess, rawId, rawName) ==
    IF IsEmpty(class_df) THEN [outcome |-> "SourceUnavailable", session |-> sess]
    ELSE IF class_df.schema # "class" THEN [outcome |-> "Crash", session |-> sess]
    ELSE
    LET df    == [i \in 1..Len(class_df.rows) |-> NormStudentRow(class_df.rows[i])]
        sid   == StrStrip(StrLower(rawId))
        sname == StrStrip(StrLower(rawName))
        match == SelectSeq(df, LAMBDA r : r.sid = sid)
    IN  IF Len(sname) < MinNameLen
            THEN [outcome |-> "ValidationFailure", session |-> sess]
        ELSE IF match = <<>>
            THEN [outcome |-> "NotFound", session |-> sess]
        ELSE IF ~Contains(sname, match[1].student)
            THEN [outcome |-> "Mismatch", session |-> sess]
        ELSE [outcome |-> "Success",
              session |-> [sess EXCEPT !["student_id"] = <<sid>>,
                                       !["student_profile"] = <<match[1]>>]]

\* main.py 145-150: the second pass, over a fresh copy of class_df
StudentLog(class_df, student_id) ==
    SelectSeq(class_df.rows, LAMBDA r : StrLower(r.sid) = student_id)

\* main.py 128-171
StudentDashboard(class_df, sess) ==
    IF ~Has(sess, "student_id") THEN [kind |-> "form", log |-> <<>>]
    ELSE IF ~Has(sess, "student_profile") \/ class_df.schema # "class"
        THEN [kind |-> "exception", log |-> <<>>]
    ELSE [kind |-> "dashboard", log |-> StudentLog(class_df, sess["student_id"][1])]

(***************************************************************************)
(* Header harness                                                          *)
(***************************************************************************)
MaxHeaderLen == 2
MaxCols == 3
MaxRepeat == 11

HeaderChars == {"A", "1", " "}

RECURSIVE SeqsUpTo(_, _)
SeqsUpTo(S, n) ==
    IF n = 0 THEN {<<>>}
    ELSE LET prev == SeqsUpTo(S, n - 1)
         IN  prev \cup {Append(p, x) : p \in {q \in prev : Len(q) = n - 1}, x \in S}

\* the sequences of SeqsUpTo(S, n) in which no element occurs twice
DistinctSeqsUpTo(S, n) ==
    {q \in SeqsUpTo(S, n) : \A i, j \in 1..Len(q) : i # j => q[i] # q[j]}

HeaderStrings == SeqsUpTo(HeaderChars, MaxHeaderLen)
RepeatedRows  == {[i \in 1..n |-> <<"A">>] : n \in 10..MaxRepeat}
ExampleRow    == <<<<"A">>, <<"A">>, <<>>, <<"B">>>>
HeaderRows    == SeqsUpTo(HeaderStrings, MaxCols) \cup RepeatedRows \cup {ExampleRow}

JoinIdle == /\ main_df = <<>> /\ student_df = <<>> /\ merged = <<>>
            /\ grouped = <<>> /\ jpc = "idle"

AppIdle == /\ app = "idle" /\ memo = <<>> /\ sourceReads = <<>> /\ fetchCalls = <<>>
           /\ session = <<>> /\ widgets = <<>> /\ outcome = "none" /\ shown = <<>>

HeadersInit ==
    /\ rawHeader \in HeaderRows
    /\ columns = <<>>
    /\ hpc = "raw"
    /\ JoinIdle
    /\ AppIdle

BuildColumns ==
    /\ hpc = "raw"
    /\ columns' = NormaliseHeaders(rawHeader)
    /\ hpc' = "done"
    /\ UNCHANGED <<rawHeader, joinVars, appVars>>

HeadersNext == BuildColumns

SpecHeaders == HeadersInit /\ [][HeadersNext]_vars

Distinct(cs) == \A i, j \in 1..Len(cs) : i # j => cs[i] # cs[j]

\* C2: the column names produced by the header normalisation are pairwise
\* distinct for every raw header row (rows holding an already suffixed name
\* and rows repeating a name ten times or more included), and
\* ["A","A","","B"] gives ["A","A1","Unnamed","B"].
C2_ColumnNamesDistinct ==
    hpc = "done" =>
        /\ Len(columns) = Len(rawHeader)
        /\ rawHeader = ExampleRow => columns = <<<<"A">>, <<"A", "1">>, Unnamed, <<"B">>>>
        /\ Distinct(columns)

(***************************************************************************)
(* Join harness: the rows matched at a login, merged with a Student Data   *)
(* relation (data.py 154) and then shown in the Daily Class Log tab.       *)
(***************************************************************************)
MaxMatched == 2
MaxLookup == 2
MaxHr == 2

ClassRow(tid, pw, mm, tname, date, sid, student, cls, syl, typ, hr) ==
    [tid |-> tid, pw |-> pw, mm |-> mm, tname |-> tname, date |-> date,
     sid |-> sid, student |-> student, cls |-> cls, syl |-> syl, typ |-> typ,
     hr |-> hr]

StudentRow(sid, em, phone) == [sid |-> sid, em |-> em, phone |-> phone]

\* rows one teacher matched for one month: credentials equal, the rest free
MatchedRows ==
    {ClassRow(<<"t", "1">>, <<"9", "9">>, <<"0", "4">>, <<"j", "a", "n", "e">>,
              d, sid, <<"a", "n", "n">>, c, <<"c", "b", "s", "e">>, <<"o", "n", "e">>, h) :
        d \in {<<"0", "1">>, <<"0", "2">>},
        sid \in {<<"s", "1">>, <<"s", "2">>},
        c \in {<<"8">>, <<"9">>},
        h \in 1..MaxHr}

LookupRows ==
    {StudentRow(sid, em, <<"5", "5">>) :
        sid \in {<<"s", "1">>, <<"s", "2">>}, em \in {<<"e", "m">>, <<"x">>}}

MatchedFrames ==
    {[schema |-> "class", rows |-> r] : r \in SeqsUpTo(MatchedRows, MaxMatched) \ {<<>>}}

LookupFrames ==
    {EmptyFrame, [schema |-> "other", rows |-> <<[other |-> "x"]>>]}
    \cup {[schema |-> "student", rows |-> r] : r \in SeqsUpTo(LookupRows, MaxLookup)}

HdrIdle == rawHeader = <<>> /\ columns = <<>> /\ hpc = "idle"

JoinInit ==
    /\ main_df \in MatchedFrames
    /\ student_df \in LookupFrames
    /\ merged = EmptyFrame
    /\ grouped = <<>>
    /\ jpc = "in"
    /\ HdrIdle
    /\ AppIdle

\* data.py 154: st.session_state.merged_data = merge_teacher_student(filtered, student_df)
MergeStep ==
    /\ jpc = "in"
    /\ merged' = merge_teacher_student(main_df, student_df)
    /\ jpc' = "merged"
    /\ UNCHANGED <<main_df, student_df, grouped, hdrVars, appVars>>

\* data.py 198-209: the Daily Class Log tab of the following run
RenderClassLog ==
    /\ jpc = "merged"
    /\ grouped' = IF ClassLogCrashes(merged) THEN <<>> ELSE ClassLogGrouped(merged)
    /\ jpc' = IF ClassLogCrashes(merged) THEN "crashed" ELSE "done"
    /\ UNCHANGED <<main_df, student_df, merged, hdrVars, appVars>>

JoinNext == MergeStep \/ RenderClassLog

SpecJoin == JoinInit /\ [][JoinNext]_vars

FirstMatch(row, lookup) ==
    IF \E i \in 1..Len(lookup) : lookup[i].sid = row.sid
    THEN LET i == CHOOSE i \in 1..Len(lookup) :
                    /\ lookup[i].sid = row.sid
                    /\ \A j \in 1..(i - 1) : lookup[j].sid # row.sid
         IN  WithContact(row, lookup[i].em, lookup[i].phone)
    ELSE WithContact(row, NaN, NaN)

\* C1: the teacher/student join returns exactly one row per base row, each
\* carrying the columns of the first lookup row of equal Student ID, or nulls
\* (stated for the lookups that have rows: duplicate keys and missing keys).
C1_JoinKeepsBaseRowCount ==
    (jpc \in {"merged", "done"} /\ student_df.schema = "student" /\ student_df.rows # <<>>) =>
        /\ Len(merged.rows) = Len(main_df.rows)
        /\ \A i \in 1..Len(main_df.rows) :
              merged.rows[i] = FirstMatch(main_df.rows[i], student_df.rows)

\* C10: the consolidated class hours conserve the matched rows' hours: the
\* groups' Hr total equals the matched rows' Hr total, and every group's sum
\* is the Hr sum of the matched rows with that (Class, Syllabus, Type) key
\* (stated for the lookups that have rows, where the join is performed).
C10_HoursConserved ==
    (jpc = "done" /\ student_df.schema = "student" /\ student_df.rows # <<>>) =>
        /\ SumHr(grouped) = SumHr(main_df.rows)
        /\ \A g \in 1..Len(grouped) :
              grouped[g].hr = SumHr(RowsOfKey(main_df.rows, GroupKey(grouped[g])))

(***************************************************************************)
(* The front ends: one action per script run.  Streamlit reruns main()     *)
(* from the top on every interaction; st.rerun() starts the next run at    *)
(* once, so the run it starts belongs to the same action.                  *)
(***************************************************************************)
MaxClassRows == 2
MaxStudentRows == 2
MaxCalls == 2

TableKeys   == {"class", "student", "profile", "supa"}
TeacherKeys == TableKeys             \* data.py 119-122
StudentKeys == {"class"}             \* main.py 81

OtherFrame == [schema |-> "other", rows |-> <<[other |-> "x"]>>]

\* ---- what the teacher spreadsheet may hold when a worksheet is read ----
TeacherClassPool ==
    {ClassRow(<<" ", "T", "1">>, <<"9", "9", " ">>, <<"4">>, <<"j", "a", "n", "e">>,
              <<"0", "2">>, <<"s", "1">>, <<"a", "n", "n">>, <<"8">>,
              <<"c", "b", "s", "e">>, <<"o", "n", "e">>, 1),
     ClassRow(<<"t", "1">>, <<"9", "9">>, <<"0", "4">>, <<"j", "a", "n", "e">>,
              <<"0", "1">>, <<"s", "2">>, <<"b", "o", "b">>, <<"9">>,
              <<"c", "b", "s", "e">>, <<"o", "n", "e">>, 2)}

TeacherClassFrames ==
    {EmptyFrame, OtherFrame}
    \cup {[schema |-> "class", rows |-> r] :
              r \in DistinctSeqsUpTo(TeacherClassPool, MaxClassRows)}

StudentDataFrames ==
    {EmptyFrame,
     [schema |-> "student", rows |-> <<StudentRow(<<"s", "1">>, <<"e", "m">>, <<"5", "5">>)>>],
     [schema |-> "student", rows |-> <<StudentRow(<<"s", "1">>, <<"e", "m">>, <<"5", "5">>),
                                       StudentRow(<<"s", "1">>, <<"x">>, <<"5", "5">>)>>]}

ProfileFrames ==
    {EmptyFrame,
     [schema |-> "profile", rows |-> <<[tid |-> <<"T", "1", " ">>, phone |-> <<"5", "5">>]>>]}

SupaFrames ==
    {EmptyFrame,
     [schema |-> "supa", rows |-> <<[tid |-> <<"t", "1">>, supalearn |-> <<"s", "7">>,
                                     demofit |-> <<"A">>]>>]}

TeacherIds       == {<<"T", "1", " ">>, <<"t", "1">>}
TeacherPasswords == {<<"9", "9">>, <<" ", "9", "9">>, <<"a", "b">>}
Months           == {4, 12}          \* data.py 127: a selection of range(4, 13)

\* ---- what the student spreadsheet may hold ----
SClassRow(sid, student, hr) == [sid |-> sid, student |-> student, date |-> <<"0", "1">>, hr |-> hr]

StudentClassPool ==
    {SClassRow(<<"S", "1">>, <<"J", "a", "n", "e">>, 1),
     SClassRow(<<"s", "1", " ">>, <<"a", "n", "n", "e">>, 2),
     SClassRow(<<"s", "2">>, <<" ", "J", "a", "n", "e", "t">>, 1)}

StudentClassFrames ==
    {EmptyFrame, OtherFrame}
    \cup {[schema |-> "class", rows |-> r] : r \in SeqsUpTo(StudentClassPool, MaxStudentRows)}

StudentIds   == {<<"s", "1">>, <<" ", "S", "1">>, <<"s", "3">>}
StudentNames == {<<"j", "a", "n", "e">>, <<"J", "A", "N", "E", " ">>, <<"j", "a", "n">>,
                 <<"j", "a", "n", " ">>, <<"a", "n", "n", "e">>}

SourceContents(a, k) ==
    IF a = "student" THEN StudentClassFrames
    ELSE CASE k = "class"   -> TeacherClassFrames
           [] k = "student" -> StudentDataFrames
           [] k = "profile" -> ProfileFrames
           [] k = "supa"    -> SupaFrames

\* ---- @st.cache_data on fetch_data (data.py 17-50, main.py 24-63) ----
\* A call with a memoised key returns the memoised frame; any other call runs
\* the body, which reads the sheet and returns a frame (the column-less
\* pd.DataFrame() when anything fails), and the returned frame is memoised.
\* variant: a memoised failure (the column-less frame) is fetched again
ReachesSource_RetryFailed(entry) == entry = <<>> \/ entry = <<EmptyFrame>>

ReachesSource(entry) == entry = <<>>

FetchResults(entry, contents) == IF ReachesSource(entry) THEN contents ELSE {entry[1]}

NoMemo  == [k \in TableKeys |-> <<>>]
NoCount == [k \in TableKeys |-> 0]

Min(a, b) == IF a < b THEN a ELSE b

\* The fetch_data calls at the top of a run, from memo m0 and counters r0, c0.
FetchAll(keys, m0, r0, c0) ==
    \E fc \in FetchResults(m0["class"], SourceContents(app, "class")),
       fs \in (IF "student" \in keys
                 THEN FetchResults(m0["student"], SourceContents(app, "student"))
                 ELSE {EmptyFrame}),
       fp \in (IF "profile" \in keys
                 THEN FetchResults(m0["profile"], SourceContents(app, "profile"))
                 ELSE {EmptyFrame}),
       fd \in (IF "supa" \in keys
                 THEN FetchResults(m0["supa"], SourceContents(app, "supa"))
                 ELSE {EmptyFrame}) :
        LET got == [k \in TableKeys |->
                       CASE k = "class" -> fc [] k = "student" -> fs
                         [] k = "profile" -> fp [] k = "supa" -> fd]
        IN  /\ memo' = [k \in TableKeys |-> IF k \in keys THEN <<got[k]>> ELSE m0[k]]
            /\ sourceReads' = [k \in TableKeys |->
                                 IF k \in keys /\ ReachesSource(m0[k])
                                    THEN r0[k] + 1 ELSE r0[k]]
            /\ fetchCalls' = [k \in TableKeys |->
                                 IF k \in keys THEN Min(c0[k] + 1, MaxCalls) ELSE c0[k]]

Frames(m) == [k \in TableKeys |-> IF m[k] = <<>> THEN EmptyFrame ELSE m[k][1]]

KeysOfApp == IF app = "teacher" THEN TeacherKeys ELSE StudentKeys

Dashboard(frames, sess) ==
    IF app = "teacher" THEN TeacherDashboard(sess)
    ELSE StudentDashboard(frames["class"], sess)

FailureKinds == {"SourceUnavailable", "ValidationFailure", "NotFound", "Mismatch",
                 "InvalidCredentials"}

LoginOutcomes == FailureKinds \cup {"Success", "Crash"}

\* What a run shows after its login block ended with result res: a reported
\* failure returns from main(), an exception ends the run, and otherwise the
\* dashboard section runs (for a success, in the run st.rerun() starts).
Rendered(frames, res) ==
    IF res.outcome \in FailureKinds THEN [kind |-> "error", log |-> <<>>]
    ELSE IF res.outcome = "Crash" THEN [kind |-> "exception", log |-> <<>>]
    ELSE Dashboard(frames, res.session)

FrontInit ==
    /\ app \in {"teacher", "student"}
    /\ memo = NoMemo
    /\ sourceReads = NoCount
    /\ fetchCalls = NoCount
    /\ session = EmptySession
    /\ widgets = <<>>
    /\ outcome = "none"
    /\ shown = [kind |-> "none", log |-> <<>>]
    /\ HdrIdle
    /\ JoinIdle

\* A run in which no button is pressed.
ViewRun ==
    LET teacherView == TeacherDashboard(session)
    IN  /\ FetchAll(KeysOfApp, memo, sourceReads, fetchCalls)
        /\ outcome' = "view"
        /\ shown' = IF app = "teacher" THEN teacherView
                    ELSE StudentDashboard(Frames(memo')["class"], session)
        /\ UNCHANGED <<app, session, widgets, hdrVars, joinVars>>

\* data.py 114-116, main.py 76-78: st.cache_data.clear(); st.rerun()
RefreshRun ==
    LET teacherView == TeacherDashboard(session)
    IN  /\ FetchAll(KeysOfApp, NoMemo, NoCount, NoCount)
        /\ outcome' = "refresh"
        /\ shown' = IF app = "teacher" THEN teacherView
                    ELSE StudentDashboard(Frames(memo')["class"], session)
        /\ UNCHANGED <<app, session, widgets, hdrVars, joinVars>>

\* data.py 119-161 with the Login button pressed
TeacherLoginRun(rawId, rawPass, month) ==
    /\ app = "teacher"
    /\ FetchAll(TeacherKeys, memo, sourceReads, fetchCalls)
    /\ LET res == TeacherLogin(Frames(memo'), session, rawId, rawPass, month)
       IN  /\ session' = res.session
           /\ outcome' = res.outcome
           /\ shown' = Rendered(Frames(memo'), res)
    /\ UNCHANGED <<app, widgets, hdrVars, joinVars>>

\* main.py 81-123 with the Login button pressed
StudentLoginRun(rawId, rawName) ==
    /\ app = "student"
    /\ FetchAll(StudentKeys, memo, sourceReads, fetchCalls)
    /\ LET res == StudentLogin(Frames(memo')["class"], session, rawId, rawName)
       IN  /\ session' = res.session
           /\ outcome' = res.outcome
           /\ shown' = Rendered(Frames(memo'), res)
    /\ widgets' = <<[id |-> rawId, name |-> rawName]>>
    /\ UNCHANGED <<app, hdrVars, joinVars>>

Next ==
    \/ ViewRun
    \/ RefreshRun
    \/ \E i \in TeacherIds, p \in TeacherPasswords, m \in Months : TeacherLoginRun(i, p, m)
    \/ \E i \in StudentIds, n \in StudentNames : StudentLoginRun(i, n)

Spec == FrontInit /\ [][Next]_vars

(***************************************************************************)
(* Properties of the front ends                                            *)
(***************************************************************************)
SameNormalised(a, b) == StrLower(StrStrip(a)) = StrLower(StrStrip(b))

\* C3: in both front ends the login decision depends on the identifier and the
\* secret only through their trimmed, lower-cased forms: attempts whose inputs
\* differ only in case or outer whitespace end in the same outcome, with the
\* same rows.
C3_LoginUsesNormalisedInputs ==
    /\ app = "teacher" =>
          \A i1, i2 \in TeacherIds, p1, p2 \in TeacherPasswords, m \in Months :
              (SameNormalised(i1, i2) /\ SameNormalised(p1, p2)) =>
                  TeacherLogin(Frames(memo), session, i1, p1, m)
                    = TeacherLogin(Frames(memo), session, i2, p2, m)
    /\ app = "student" =>
          \A i1, i2 \in StudentIds, n1, n2 \in StudentNames :
              (SameNormalised(i1, i2) /\ SameNormalised(n1, n2)) =>
                  StudentLogin(Frames(memo)["class"], session, i1, n1)
                    = StudentLogin(Frames(memo)["class"], session, i2, n2)

\* the last run was a student login whose trimmed fragment is too short
ShortFragmentLogin ==
    /\ app = "student"
    /\ outcome \in LoginOutcomes
    /\ widgets # <<>>
    /\ Len(StrStrip(StrLower(widgets[1].name))) < MinNameLen

\* C4 as stated: a student login with a trimmed fragment of fewer than 4
\* characters always ends in ValidationFailure and writes nothing to the
\* session (stated for the class relations that are empty or carry the
\* Student ID and Student columns).
C4_ShortFragmentAlwaysValidationFailure ==
    [][(ShortFragmentLogin' /\ Frames(memo')["class"].schema # "other") =>
          (outcome' = "ValidationFailure" /\ session' = session)]_vars

\* C4 amended: such a login never ends in NotFound, Mismatch or success and
\* writes nothing to the session; it ends in ValidationFailure whenever the
\* class relation has a row and the Student ID / Student columns, and in the
\* "data not loaded" outcome when the relation is empty.
C4_ShortFragmentRejectedBeforeLookup ==
    [][ShortFragmentLogin' =>
          /\ session' = session
          /\ outcome' \notin {"NotFound", "Mismatch", "Success"}
          /\ (~IsEmpty(Frames(memo')["class"]) /\ Frames(memo')["class"].schema = "class")
                => outcome' = "ValidationFailure"
          /\ IsEmpty(Frames(memo')["class"]) => outcome' = "SourceUnavailable"]_vars

\* a short-fragment login was rejected although a row matches the ID and
\* contains the fragment
C4_Witness ==
    /\ ShortFragmentLogin
    /\ outcome = "ValidationFailure"
    /\ \E k \in 1..Len(Frames(memo)["class"].rows) :
          LET r == NormStudentRow(Frames(memo)["class"].rows[k])
          IN  /\ r.sid = StrStrip(StrLower(widgets[1].id))
              /\ Contains(StrStrip(StrLower(widgets[1].name)), r.student)

\* the indices of the class rows a credential and month select
MatchingIndices(rows, rawId, pass, month) ==
    {k \in 1..Len(rows) :
        /\ StrLower(StrStrip(rows[k].tid)) = StrLower(StrStrip(rawId))
        /\ StrStrip(rows[k].pw) = pass
        /\ ZFill2(rows[k].mm) = MonthStr(month)}

C6_FailedLoginKeepsSession ==
    [][outcome' \in FailureKinds => session' = session]_vars

\* a failed attempt was made while an earlier login's session is held
C6_Witness ==
    /\ outcome \in FailureKinds
    /\ \/ (app = "teacher" /\ Has(session, "teacher_name") /\ Has(session, "demofit"))
       \/ (app = "student" /\ Has(session, "student_id") /\ outcome = "Mismatch")

\* C7: between two refreshes a worksheet is read at most once and its memoised
\* frame, a failed fetch's empty frame included, is what every later fetch
\* returns; a refresh clears every key, so the run it starts reads every
\* worksheet of the front end again.
C7_FetchMemoisedUntilRefresh ==
    /\ [](\A k \in TableKeys : sourceReads[k] <= 1)
    /\ [][outcome' # "refresh" =>
            \A k \in TableKeys : memo[k] # <<>> => memo'[k] = memo[k]]_vars
    /\ [](outcome = "refresh" => \A k \in KeysOfApp : sourceReads[k] = 1)

\* a failed Profile fetch is memoised and a later run did not retry it
C7_Witness ==
    /\ app = "teacher"
    /\ memo["profile"] = <<EmptyFrame>>
    /\ fetchCalls["profile"] >= 2
    /\ sourceReads["profile"] = 1

\* C8: whenever the teacher session holds teacher_name it also holds
\* teacher_id, filtered_data, merged_data, profile_data, supalearn_id and demofit.
C8_SessionAllOrNothing ==
    (app = "teacher" /\ Has(session, "teacher_name")) =>
        \A f \in {"teacher_id", "filtered_data", "merged_data", "profile_data",
                  "supalearn_id", "demofit"} : Has(session, f)

\* C9: after a successful student login the class log shown contains every row
\* whose Student ID matched in the identity pass, so it is never empty.
C9_LogContainsMatchedRows ==
    (app = "student" /\ outcome = "Success") =>
        /\ shown.kind = "dashboard"
        /\ shown.log # <<>>
        /\ \A k \in 1..Len(Frames(memo)["class"].rows) :
              NormStudentRow(Frames(memo)["class"].rows[k]).sid = session["student_id"][1]
                  => \E j \in 1..Len(shown.log) : shown.log[j] = Frames(memo)["class"].rows[k]

====
